---- MODULE Spec2Model ----
(***************************************************************************)
(* Model of src/app.py: the crawler (ImprovedWebScraper) driven by         *)
(* SchoolAssistantWithVectorStore.update_knowledge_base.                   *)
(*                                                                         *)
(* A URL is a sequence of tokens.  The first token stands for the          *)
(* "scheme://netloc" prefix; the other tokens are the delimiters "/", "?", *)
(* "#" and atoms of text that contain no delimiter ("a", ".pdf", ...).     *)
(***************************************************************************)
EXTENDS Bags, FiniteSets, Integers, Sequences, TLC

\* ------------------------------------------------------------------ bounds
MaxPagesBound == 2      \* max_pages ranges over 0..MaxPagesBound
MaxDepthBound == 3      \* max_depth ranges over 0..MaxDepthBound
MaxLinksPerPage == 2    \* hrefs found on one fetched page
WideCount == 51         \* pages the seed of the wide site links to
MaxSelectors == 2       \* content selectors that match on one page
MaxUrlTokens == 4       \* tokens after scheme://netloc in a URL to normalise
MaxUpdates == 2         \* calls of update_vector_store_content in one behaviour
MaxJobs == 2            \* updates and cleans started by the threads in one behaviour
MaxRequests == 3        \* chat requests received in one behaviour
MaxSeconds == 2         \* seconds the clock is followed for

\* ------------------------------------------------------- program constants
FanOutCap == 50         \* list(next_level_urls)[:50]
SelectorThreshold == 200  \* extract_text_content: len(main_content.strip()) > 200
MinContentLength == 50    \* scrape_page: len(content.strip()) > 50
max_wait_time == 60       \* get_response: max_wait_time = 60

\* --------------------------------------------------------------- the site
H == "https://h"        \* scheme://netloc of WEBSITE_URL
X == "https://x"        \* scheme://netloc of another site

base_url == <<H, "/">>

domain == base_url[1]

\* absolute URLs (after urljoin) that pages of the site may carry as hrefs
Hrefs ==
    { <<H, "/", "a">>,
      <<H, "/", "a", "#", "f">>,
      <<H, "/", "a", "#", "g">>,
      <<H, "/", "a", "/", "#", "g">>,
      <<H, "/", "a", "?", "utm_">>,
      <<H, "/", "d", ".pdf">>,
      <<H, "/", "d", ".pdf", "#", "f">>,
      <<H, "/", "wp-admin", "/", "b">>,
      <<X, "/", "a">> }

\* outcomes of the HTTP GET + parse in scrape_page
ScrapeOutcomes ==
    {"ok", "thin", "non_html", "http_error", "timeout", "conn_error", "parse_error"}

\* outcomes of the HTTP GET + parse of the link-discovery request
LinkOutcomes == {"ok", "timeout", "conn_error", "parse_error"}

\* the outcomes that raise a Python exception inside the try block
Raises(o) == o \in {"http_error", "timeout", "conn_error", "parse_error"}

\* the outcomes in which the fetch of the page failed
FetchFailure(o) == o \in {"http_error", "timeout", "conn_error", "non_html"}

\* ------------------------------------------------------------ URL helpers
IndexOf(s, t) ==
    IF \E i \in 1..Len(s) : s[i] = t
    THEN CHOOSE i \in 1..Len(s) : s[i] = t /\ \A j \in 1..(i-1) : s[j] # t
    ELSE 0

urlparse(url) ==
    LET rest   == Tail(url)
        h      == IndexOf(rest, "#")
        nofrag == IF h = 0 THEN rest ELSE SubSeq(rest, 1, h-1)
        frag   == IF h = 0 THEN <<>> ELSE SubSeq(rest, h+1, Len(rest))
        q      == IndexOf(nofrag, "?")
        path   == IF q = 0 THEN nofrag ELSE SubSeq(nofrag, 1, q-1)
        query  == IF q = 0 THEN <<>> ELSE SubSeq(nofrag, q+1, Len(nofrag))
    IN  [netloc |-> Head(url), path |-> path, query |-> query, fragment |-> frag]

urlunparse(netloc, path, query, fragment) ==
    <<netloc>> \o path
        \o (IF query # <<>> THEN <<"?">> \o query ELSE <<>>)
        \o (IF fragment # <<>> THEN <<"#">> \o fragment ELSE <<>>)

RECURSIVE rstrip(_)
rstrip(s) ==
    IF Len(s) > 0 /\ s[Len(s)] = "/" THEN rstrip(SubSeq(s, 1, Len(s)-1)) ELSE s

\* the fragment handed to urlunparse
NormalizeFragmentKept(parsed) == parsed.fragment

NormalizeFragment(parsed) == <<>>

normalize_url(url) ==
    LET parsed     == urlparse(url)
        normalized == urlunparse(parsed.netloc, parsed.path, parsed.query,
                                 NormalizeFragment(parsed))
    IN  IF /\ normalized[Len(normalized)] = "/"
           /\ Len(normalized) > Len(<<parsed.netloc, "/">>)
        THEN rstrip(normalized)
        ELSE normalized

\* skip_patterns: r'X$' for the atoms of SkipSuffix, r'/X/' for those of
\* SkipInfix, and r'\?.*utm_'
SkipSuffix ==
    {".pdf", ".jpg", ".png", ".gif", ".css", ".js", ".zip", ".doc", ".docx",
     ".xls", ".xlsx", "#", ".xml", ".json"}

SkipInfix == {"wp-admin", "wp-content", "wp-includes"}

skip_patterns(url) ==
    \/ url[Len(url)] \in SkipSuffix
    \/ \E i \in 1..(Len(url)-2) :
          url[i] = "/" /\ url[i+1] \in SkipInfix /\ url[i+2] = "/"
    \/ \E i \in 1..Len(url) : \E j \in (i+1)..Len(url) :
          url[i] = "?" /\ url[j] = "utm_"

is_valid_url_any_host(url, visited, failed) ==
    IF normalize_url(url) \in visited \/ normalize_url(url) \in failed THEN FALSE
    ELSE IF skip_patterns(url) THEN FALSE
    ELSE TRUE

is_valid_url(url, visited, failed) ==
    IF urlparse(url).netloc # domain THEN FALSE
    ELSE IF normalize_url(url) \in visited \/ normalize_url(url) \in failed THEN FALSE
    ELSE IF skip_patterns(url) THEN FALSE
    ELSE TRUE

extract_all_links(hrefs, visited, failed) ==
    { normalize_url(h) : h \in { g \in hrefs : is_valid_url(g, visited, failed) } }

\* ------------------------------------------------------------------ state
VARIABLES
    pc,               \* position of the crawl: idle, while, for, scrape, links,
                      \* level_end, done, raised
    visited_urls,     \* ImprovedWebScraper.visited_urls
    failed_urls,      \* ImprovedWebScraper.failed_urls
    max_pages,        \* arguments of scrape_website_exhaustive
    max_depth,
    content_list,     \* local content_list
    urls_by_depth,    \* local urls_by_depth
    current_depth,    \* local current_depth
    idx,              \* position of the for loop in current_level_urls
    next_level_urls,  \* local next_level_urls
    normalized_url,   \* local normalized_url of the for loop body
    scrape_calls,     \* bag of URLs scrape_page has requested in this run
    link_gets,        \* bag of URLs the link-discovery GET has requested in this run
    fetch_failed,     \* URLs whose fetch in scrape_page failed in this run
    found_by_next,    \* for each URL of next_level_urls: position, in the current
                      \* level, of the page whose links added it
    found_by_cur,     \* the same for the URLs of the current level
    record_meta,      \* for each record of content_list: the depth it was fetched
                      \* at and the position of the page that enqueued its URL
    world,            \* the site that is crawled
    visited_at_start, \* visited_urls when the run was entered
    url_in,           \* a URL handed to normalize_url
    url_out,          \* its successive normalizations
    page,             \* a fetched page handed to the content extraction
    page_result,      \* the body extracted from it and what scrape_page returns
    upc,              \* position of update_vector_store_content: idle, clean,
                      \* upload, returned, raised
    fresh,            \* its argument content_list
    tracking,         \* table web_content_tracking, by url
    vs_files,         \* ids of the files attached to the vector store
    oa_files,         \* ids of the files held by OpenAI Files
    files_response,   \* listed files clean_vector_store has still to delete
    deleted_count,    \* locals of clean_vector_store
    failed_count,
    new_file_ids,     \* local new_file_ids
    upload_idx,       \* position of the upload loop in content_list
    update_result,    \* what update_vector_store_content returned
    next_file_id,     \* the id the next created file gets
    update_no,        \* number of updates started; the time of the crawl
    batch_status,     \* status of the file batch at OpenAI
    job,              \* for each thread: where it is in update_knowledge_base
                      \* or clean_vector_store, and the locals of that call
    jobs_started,     \* number of such calls started; the time of their crawl
    last_update,      \* self.last_update: the time of the last update that
                      \* returned, 0 for None
    conversation_threads,  \* table conversation_threads: external_id -> thread_id
    oa_threads,       \* the threads at OpenAI: for each thread id its messages
    req,              \* for each request being served: where it is in
                      \* get_response, and the locals of that call
    received,         \* number of chat requests received
    epoch,            \* for each external id, how often its thread was cleared
    clock,            \* int(time.time()), counted from the start
    upd_hist          \* history of the update: the tracked hashes when it
                      \* started, the pages of the update before it, and the
                      \* store mutations and failed calls so far

crawlVars == <<pc, visited_urls, failed_urls, max_pages, max_depth, content_list,
               urls_by_depth, current_depth, idx, next_level_urls, normalized_url,
               scrape_calls, link_gets, fetch_failed, found_by_next, found_by_cur,
               record_meta, world, visited_at_start>>

\* the variables the crawl leaves alone
urlVars == <<url_in, url_out>>

pageVars == <<page, page_result>>

updVars == <<upc, fresh, tracking, vs_files, oa_files, files_response,
             deleted_count, failed_count, new_file_ids, upload_idx, update_result,
             next_file_id, update_no, batch_status, upd_hist>>

\* the part of updVars that is the database and OpenAI, and the locals
storeVars == <<tracking, vs_files, oa_files, next_file_id>>

updLocals == <<upc, fresh, files_response, deleted_count, failed_count, new_file_ids,
               upload_idx, update_result, update_no, batch_status, upd_hist>>

jobVars == <<job, jobs_started>>

chatVars == <<conversation_threads, oa_threads, req, received, epoch, clock>>

kbVars == <<last_update>>

restVars == <<jobVars, chatVars>>

otherVars == <<urlVars, pageVars, updVars, kbVars, restVars>>

vars == <<crawlVars, otherVars>>

NoUrl == <<>>

NoneFound == [u \in {} |-> 0]

NoPage == [sels |-> <<>>, doc |-> 0, dropped |-> 0, broken |-> TRUE]

NoResult == [body |-> 0, outcome |-> "none"]

UrlIdle == url_in = NoUrl /\ url_out = <<>>

PageIdle == page = NoPage /\ page_result = NoResult

NoRows == {}

NoHashes == [u \in {} |-> 0]

NoUpdateResult == [new |-> 0, updated |-> 0, total |-> 0, cleaned |-> 0, set |-> FALSE]

NoHistory ==
    [stored_before |-> NoHashes, before |-> NoHashes, before_ok |-> FALSE,
     deletes |-> 0, cleared |-> 0, uploads |-> 0, writes |-> 0, faults |-> 0,
     upload_failed |-> {}]

\* an empty vector store and an empty tracking table, no update running
UpdIdle ==
    /\ upc = "idle"
    /\ fresh = <<>>
    /\ tracking = NoRows
    /\ vs_files = {}
    /\ oa_files = {}
    /\ files_response = {}
    /\ deleted_count = 0
    /\ failed_count = 0
    /\ new_file_ids = <<>>
    /\ upload_idx = 0
    /\ update_result = NoUpdateResult
    /\ next_file_id = 1
    /\ update_no = 0
    /\ batch_status = "none"
    /\ upd_hist = NoHistory
    /\ last_update = 0

\* the scheduler thread and a thread that serves a request
Threads == {"scheduler", "request"}

IdleJob == [pc |-> "idle", kind |-> "none", content |-> <<>>, idx |-> 0, ids |-> <<>>]

JobIdle == job = [t \in Threads |-> IdleJob] /\ jobs_started = 0

\* the request slots and the external ids of the users
Slots == {1, 2}

ExternalIds == {"u1", "u2"}

\* the ids requests without externalId get
WebIds == {"web_0", "web_1", "web_2", "web_3"}

NoMapping == [i \in {} |-> 0]

NoReply == [success |-> FALSE, text |-> "none", thread_id |-> 0]

IdleReq ==
    [pc |-> "idle", external_id |-> "none", thread_id |-> 0, wait_time |-> 0,
     status |-> "none", seq |-> 0, epoch |-> 0, result |-> NoReply]

ChatIdle ==
    /\ conversation_threads = NoMapping
    /\ oa_threads = <<>>
    /\ req = [r \in Slots |-> IdleReq]
    /\ received = 0
    /\ epoch = [i \in ExternalIds \cup WebIds |-> 0]
    /\ clock = 0

RestIdle == JobIdle /\ ChatIdle

OtherInit == UrlIdle /\ PageIdle /\ UpdIdle /\ RestIdle

CrawlInit(w) ==
    /\ world = w
    /\ found_by_next = NoneFound
    /\ found_by_cur = NoneFound
    /\ record_meta = <<>>
    /\ pc = "idle"
    /\ visited_urls = {}
    /\ visited_at_start = {}
    /\ failed_urls = {}
    /\ max_pages = 0
    /\ max_depth = 0
    /\ content_list = <<>>
    /\ urls_by_depth = [d \in {} |-> <<>>]
    /\ current_depth = 0
    /\ idx = 0
    /\ next_level_urls = {}
    /\ normalized_url = NoUrl
    /\ scrape_calls = EmptyBag
    /\ link_gets = EmptyBag
    /\ fetch_failed = {}

InitIn(w) == CrawlInit(w) /\ OtherInit

Init == InitIn("any")

\* ---------------------------------------------------------- loop helpers
\* while/for condition on the page budget: len(content_list) < max_pages
BudgetLeftOffByOne(content, mp) == Len(content) <= mp

BudgetLeft(content, mp) == Len(content) < mp

\* current_depth += 1
NextDepth(d) == d + 1

\* the level that receives the links found at level d
TargetDepthSameLevel(d) == d

TargetDepth(d) == d + 1

\* "if current_depth < max_depth - 1": links are looked for below the last level
LinkLevel(d, md) == d < md - 1

\* the except clauses around scrape_page's body and around the link request
ScrapeCaughtHttpOnly(o) == o = "http_error"

ScrapeCaught(o) == TRUE

LinksCaught(o) == TRUE

\* list(s): the elements of a set in some order
TakeAll(s, n) == s

Orderings(S) ==
    { s \in [1..Cardinality(S) -> S] : \A i, j \in 1..Cardinality(S) : i # j => s[i] # s[j] }

Take(s, n) == IF Len(s) <= n THEN s ELSE SubSeq(s, 1, n)

WebContent(u) == [url |-> u]

\* ------------------------------------------------------------ the worlds
\* The crawl runs in one of three worlds, fixed for a behaviour:
\*   "any"  - every fetch outcome, any hrefs of Hrefs on any page, any order
\*   "wide" - the seed page links to WideCount pages, every fetch succeeds
\*   "thin" - the wide site, with pages too short to yield a record; only
\*            the seed page may yield one
\*   "tree" - the root links to 3 pages, each of which links to 2 further pages,
\*            every fetch succeeds
\*   "jobs" - the crawl of a run is not followed step by step: a run gets the
\*            list of pages its crawl returns
\*   "serial", "concurrent" - no crawl; chat requests are served one at a
\*            time, or two at a time
\*   "anonymous" - no crawl; chat requests without externalId, two at a time
Digit == <<"0", "1", "2", "3", "4", "5", "6", "7", "8", "9">>

WidePage(n) == <<H, "/", Digit[(n \div 10) + 1], Digit[(n % 10) + 1]>>

WideHrefs == { WidePage(n) : n \in 1..WideCount }

\* the pages of S by increasing number, and by decreasing number
WideOrders(S) ==
    LET up == SelectSeq([n \in 1..WideCount |-> WidePage(n)], LAMBDA u : u \in S)
    IN  { up, [i \in 1..Len(up) |-> up[Len(up) + 1 - i]] }

TreeParents == {"p1", "p2", "p3"}

TreeChildren == {"c1", "c2"}

TreeLinks(url) ==
    IF url = base_url THEN { <<H, "/", p>> : p \in TreeParents }
    ELSE IF Len(url) = 3 /\ url[3] \in TreeParents
         THEN { url \o <<"/", c>> : c \in TreeChildren }
         ELSE {}

\* the arguments of the crawl: the scenario of the tree world is max_pages=5,
\* max_depth=2; a deeper run of it takes 7 pages over 3 levels
ArgsOf(w) ==
    IF w = "tree" THEN { <<5, 2>>, <<7, 3>> }
    ELSE IF w \in {"jobs", "serial", "concurrent", "anonymous"} THEN {}
    ELSE (0..MaxPagesBound) \X (0..MaxDepthBound)

ScrapeOutcomesOf(w) ==
    IF w = "any" THEN ScrapeOutcomes
    ELSE IF w = "thin" THEN {"ok", "thin"} ELSE {"ok"}

\* the outcomes of the fetch of url: in the thin world only the seed page
\* may be long enough to yield a record
ScrapeOutcomesAt(w, url) ==
    IF w = "thin" /\ url # normalize_url(base_url) THEN {"thin"} ELSE ScrapeOutcomesOf(w)

LinkOutcomesOf(w) == IF w = "any" THEN LinkOutcomes ELSE {"ok"}

\* the sets of hrefs the page at url may carry
PageHrefs(w, url) ==
    IF w \in {"wide", "thin"} THEN { WideHrefs }
    ELSE IF w = "tree" THEN { TreeLinks(url) }
    ELSE { S \in SUBSET Hrefs : Cardinality(S) <= MaxLinksPerPage }

\* list(S)
ListOrders(w, S) == IF w \in {"wide", "thin"} THEN WideOrders(S) ELSE Orderings(S)

\* ---------------------------------------------------------------- actions
\* scrape_website_exhaustive is entered: its locals are initialised
EnterScrape(mp, md) ==
    /\ max_pages' = mp
    /\ max_depth' = md
    /\ content_list' = <<>>
    /\ urls_by_depth' = (0 :> <<base_url>>)
    /\ current_depth' = 0
    /\ idx' = 0
    /\ next_level_urls' = {}
    /\ normalized_url' = NoUrl
    /\ scrape_calls' = EmptyBag
    /\ link_gets' = EmptyBag
    /\ fetch_failed' = {}
    /\ found_by_next' = NoneFound
    /\ found_by_cur' = NoneFound
    /\ record_meta' = <<>>
    /\ pc' = "while"

\* update_knowledge_base on the existing assistant (on demand or scheduled).
\* The call passes max_pages=100, max_depth=5; the model ranges over the
\* arguments scrape_website_exhaustive accepts, within the bounds.
UpdateKnowledgeBase ==
    /\ pc = "idle"
    /\ \E a \in ArgsOf(world) : EnterScrape(a[1], a[2])
    /\ visited_at_start' = visited_urls
    /\ UNCHANGED <<visited_urls, failed_urls, world, otherVars>>

\* init_assistant: a new assistant with a new scraper, then the first update
InitAssistant ==
    /\ pc = "idle"
    /\ visited_urls' = {}
    /\ failed_urls' = {}
    /\ \E a \in ArgsOf(world) : EnterScrape(a[1], a[2])
    /\ visited_at_start' = {}
    /\ UNCHANGED <<world, otherVars>>

\* the head of the while loop
WhileCheck ==
    /\ pc = "while"
    /\ IF current_depth < max_depth /\ BudgetLeft(content_list, max_pages)
       THEN IF \/ current_depth \notin DOMAIN urls_by_depth
               \/ urls_by_depth[current_depth] = <<>>
            THEN /\ current_depth' = NextDepth(current_depth)
                 /\ UNCHANGED <<pc, idx, next_level_urls, found_by_next>>
            ELSE /\ pc' = "for"
                 /\ idx' = 1
                 /\ next_level_urls' = {}
                 /\ found_by_next' = NoneFound
                 /\ UNCHANGED current_depth
       ELSE /\ pc' = "done"
            /\ UNCHANGED <<current_depth, idx, next_level_urls, found_by_next>>
    /\ UNCHANGED <<visited_urls, failed_urls, max_pages, max_depth, content_list,
                   urls_by_depth, normalized_url, scrape_calls, link_gets, fetch_failed,
                   found_by_cur, record_meta, world, visited_at_start, otherVars>>

\* the head of the for loop up to visited_urls.add
ForStep ==
    /\ pc = "for"
    /\ LET level == urls_by_depth[current_depth] IN
       IF idx > Len(level) \/ ~BudgetLeft(content_list, max_pages)
       THEN /\ pc' = "level_end"
            /\ UNCHANGED <<idx, visited_urls, normalized_url>>
       ELSE LET n == normalize_url(level[idx]) IN
            IF n \in visited_urls
            THEN /\ idx' = idx + 1
                 /\ normalized_url' = n
                 /\ UNCHANGED <<pc, visited_urls>>
            ELSE /\ visited_urls' = visited_urls \cup {n}
                 /\ normalized_url' = n
                 /\ pc' = "scrape"
                 /\ UNCHANGED idx
    /\ UNCHANGED <<failed_urls, max_pages, max_depth, content_list, urls_by_depth,
                   current_depth, next_level_urls, scrape_calls, link_gets, fetch_failed,
                   found_by_next, found_by_cur, record_meta, world, visited_at_start, otherVars>>

\* content = self.scrape_page(normalized_url); if content: content_list.append
ScrapePage ==
    /\ pc = "scrape"
    /\ \E o \in ScrapeOutcomesAt(world, normalized_url) :
        LET u == normalize_url(normalized_url) IN
        /\ scrape_calls' = scrape_calls (+) SetToBag({u})
        /\ fetch_failed' = IF FetchFailure(o) THEN fetch_failed \cup {u} ELSE fetch_failed
        /\ IF Raises(o) /\ ~ScrapeCaught(o)
           THEN /\ pc' = "raised"
                /\ UNCHANGED <<failed_urls, content_list, idx, record_meta>>
           ELSE /\ failed_urls' = IF Raises(o) THEN failed_urls \cup {u} ELSE failed_urls
                /\ content_list' = IF o = "ok" THEN Append(content_list, WebContent(u))
                                   ELSE content_list
                /\ record_meta' =
                      IF o = "ok"
                      THEN Append(record_meta,
                                  [depth |-> current_depth,
                                   by    |-> IF normalized_url \in DOMAIN found_by_cur
                                             THEN found_by_cur[normalized_url] ELSE 0])
                      ELSE record_meta
                /\ IF LinkLevel(current_depth, max_depth)
                   THEN pc' = "links" /\ UNCHANGED idx
                   ELSE pc' = "for" /\ idx' = idx + 1
    /\ UNCHANGED <<visited_urls, max_pages, max_depth, urls_by_depth, current_depth,
                   next_level_urls, normalized_url, link_gets, found_by_next,
                   found_by_cur, world, visited_at_start, otherVars>>

\* the link-discovery request and extract_all_links
GetLinks ==
    /\ pc = "links"
    /\ link_gets' = link_gets (+) SetToBag({normalized_url})
    /\ \E o \in LinkOutcomesOf(world) :
        IF Raises(o)
        THEN IF LinksCaught(o)
             THEN pc' = "for" /\ idx' = idx + 1
                  /\ UNCHANGED <<next_level_urls, found_by_next>>
             ELSE pc' = "raised" /\ UNCHANGED <<idx, next_level_urls, found_by_next>>
        ELSE \E hrefs \in PageHrefs(world, normalized_url) :
             LET new_links == extract_all_links(hrefs, visited_urls, failed_urls)
                 added     == { link \in new_links : link \notin visited_urls }
             IN
             /\ next_level_urls' = next_level_urls \cup added
             /\ found_by_next' =
                    [ u \in next_level_urls \cup added |->
                        IF u \in next_level_urls THEN found_by_next[u] ELSE idx ]
             /\ pc' = "for"
             /\ idx' = idx + 1
    /\ UNCHANGED <<visited_urls, failed_urls, max_pages, max_depth, content_list,
                   urls_by_depth, current_depth, normalized_url, scrape_calls, fetch_failed,
                   found_by_cur, record_meta, world, visited_at_start, otherVars>>

\* after the for loop: the next level is stored and the depth advances
LevelEnd ==
    /\ pc = "level_end"
    /\ IF next_level_urls # {} /\ LinkLevel(current_depth, max_depth)
       THEN \E order \in ListOrders(world, next_level_urls) :
              urls_by_depth' =
                  (TargetDepth(current_depth) :> Take(order, FanOutCap)) @@ urls_by_depth
       ELSE UNCHANGED urls_by_depth
    /\ found_by_cur' = found_by_next
    /\ current_depth' = NextDepth(current_depth)
    /\ pc' = "while"
    /\ UNCHANGED <<visited_urls, failed_urls, max_pages, max_depth, content_list,
                   idx, next_level_urls, normalized_url, scrape_calls, link_gets,
                   fetch_failed, found_by_next, record_meta, world, visited_at_start, otherVars>>

\* return content_list
Return ==
    /\ pc = "done"
    /\ pc' = "idle"
    /\ UNCHANGED <<visited_urls, failed_urls, max_pages, max_depth, content_list,
                   urls_by_depth, current_depth, idx, next_level_urls, normalized_url,
                   scrape_calls, link_gets, fetch_failed, found_by_next, found_by_cur,
                   record_meta, world, visited_at_start, otherVars>>

RunStep == WhileCheck \/ ForStep \/ ScrapePage \/ GetLinks \/ LevelEnd \/ Return

Next ==
    \/ UpdateKnowledgeBase
    \/ InitAssistant
    \/ WhileCheck
    \/ ForStep
    \/ ScrapePage
    \/ GetLinks
    \/ LevelEnd
    \/ Return

Spec == Init /\ [][Next]_vars

\* every HTTP request has a timeout and every step of the loop is ordinary
\* sequential code, so a run that has started keeps taking steps
FairSpec == Spec /\ WF_vars(RunStep)

\* the same crawler on the wide site and on the tree site
InitWide == InitIn("wide")

SpecWide == InitWide /\ [][Next]_vars

InitThin == InitIn("thin")

SpecThin == InitThin /\ [][Next]_vars

InitTree == InitIn("tree")

SpecTree == InitTree /\ [][Next]_vars

\* ------------------------------------------------- content extraction
\* A fetched page is described by the lengths of the texts the extraction
\* looks at: sels[i] is the length of the text of the best element of the
\* i-th selector that matches, doc the length of the text of the whole
\* document, dropped the number of characters the line cleaning removes;
\* broken says that the extraction raises.
TextLengths == {0, 50, 51, 199, 200, 201, 260}

DroppedLengths == {0, 1, 210}

PageInputs ==
    [ sels    : UNION { [1..n -> TextLengths] : n \in 0..MaxSelectors },
      doc     : TextLengths,
      dropped : DroppedLengths,
      broken  : BOOLEAN ]

\* the for loop over main_content_selectors: it stops at the first selector
\* whose text is longer than the threshold and otherwise keeps the last one
SelectedLength(sels) ==
    IF \E i \in 1..Len(sels) : sels[i] > SelectorThreshold
    THEN sels[CHOOSE i \in 1..Len(sels) :
                 /\ sels[i] > SelectorThreshold
                 /\ \A j \in 1..(i-1) : ~(sels[j] > SelectorThreshold)]
    ELSE IF Len(sels) > 0 THEN sels[Len(sels)] ELSE 0

\* "if not main_content or len(main_content.strip()) < 200": whole document
MainLength(p) ==
    IF SelectedLength(p.sels) = 0 \/ SelectedLength(p.sels) < SelectorThreshold
    THEN p.doc
    ELSE SelectedLength(p.sels)

\* the lines that are dropped shorten the text
CleanedLength(n, dropped) == IF dropped >= n THEN 0 ELSE n - dropped

extract_text_content(p) ==
    IF p.broken THEN 0 ELSE CleanedLength(MainLength(p), p.dropped)

\* "if content and len(content.strip()) > 50": a record, else None
ContentGateInclusive(body) == IF body >= MinContentLength THEN "ok" ELSE "thin"

ContentGate(body) == IF body > MinContentLength THEN "ok" ELSE "thin"

InitPage ==
    /\ CrawlInit("any")
    /\ UrlIdle
    /\ UpdIdle
    /\ RestIdle
    /\ page \in PageInputs
    /\ page_result = NoResult

\* scrape_page from the parsed page on: the outcome is the one ScrapePage
\* draws as "ok" or "thin"
ExtractAndGate ==
    /\ page_result = NoResult
    /\ page # NoPage
    /\ page_result' = [body    |-> extract_text_content(page),
                       outcome |-> ContentGate(extract_text_content(page))]
    /\ UNCHANGED <<page, crawlVars, urlVars, updVars, kbVars, restVars>>

NextPage == ExtractAndGate

SpecPage == InitPage /\ [][NextPage]_vars

\* ------------------------------------------------------ normalisation
\* URLs handed to normalize_url: scheme://netloc followed by up to
\* MaxUrlTokens tokens, the first of which is a delimiter
UrlTokens == {"/", "?", "#", "a"}

UrlInputs ==
    { <<H>> \o t : t \in { s \in UNION { [1..n -> UrlTokens] : n \in 0..MaxUrlTokens } :
                             Len(s) > 0 => s[1] \in {"/", "?", "#"} } }

InitNormalize ==
    /\ CrawlInit("any")
    /\ PageIdle
    /\ UpdIdle
    /\ RestIdle
    /\ url_in \in UrlInputs
    /\ url_out = <<>>

\* normalize_url(url_in), then normalize_url of what it returned
Normalize ==
    /\ url_in # NoUrl
    /\ Len(url_out) < 2
    /\ url_out' = Append(url_out,
                         normalize_url(IF url_out = <<>> THEN url_in
                                       ELSE url_out[Len(url_out)]))
    /\ UNCHANGED <<url_in, crawlVars, pageVars, updVars, kbVars, restVars>>

NextNormalize == Normalize

SpecNormalize == InitNormalize /\ [][NextNormalize]_vars

\* ------------------------------------------------------ knowledge update
\* The pages of the site and the versions of their content: the hash and the
\* title of a page follow the version of its content.
PageUrls == {"A", "B"}

Versions == {1, 2}

\* content_list: a non-empty list of pages with distinct URLs
FreshLists ==
    { s \in UNION { [1..n -> [url : PageUrls, version : Versions]] : n \in 1..2 } :
        \A i, j \in 1..Len(s) : i < j => s[i].url # s[j].url }

\* the WebContent scrape_page builds for a page at time now
FreshContent(p, now) ==
    [url |-> p.url, title |-> p.version, content_hash |-> p.version,
     last_updated |-> now]

\* what scrape_website_exhaustive returns to update_knowledge_base
CrawlResults == FreshLists \cup {<<>>}

\* "if not content_list"
NeverEmpty(list) == FALSE

NoContent(list) == list = <<>>

ListOutcomes == {"ok", "api_error"}

DeleteOutcomes == {"ok", "vs_delete_error", "file_delete_error"}

ClearOutcomes == {"ok", "db_error"}

UploadOutcomes == {"ok", "create_error", "tracking_error"}

BatchCreateOutcomes == {"ok", "api_error"}

\* the statuses a file batch can end in
BatchEndings == {"completed", "failed"}

\* "while batch_response.status in ['in_progress', 'cancelling']"
BatchWaits(status) == status \in {"in_progress", "cancelling"}

\* vector_stores.files.list: the files clean_vector_store goes through
NothingListed(vs) == {}

ListedFiles(vs) == vs

\* DELETE FROM web_content_tracking
KeepTracking(t) == t

clear_content_tracking(t) == NoRows

\* INSERT OR REPLACE INTO web_content_tracking
SkipTracking(t, content, file_id) == t

\* the row of a page
TrackingRow(content, file_id) ==
    [url |-> content.url, title |-> content.title,
     content_hash |-> content.content_hash, file_id |-> file_id,
     last_updated |-> content.last_updated]

\* a plain INSERT on a table without the UNIQUE constraint on url
InsertOnly(t, content, file_id) == t \cup {TrackingRow(content, file_id)}

\* url is UNIQUE: the row in conflict is deleted, then the row is inserted
save_content_tracking(t, content, file_id) ==
    { r \in t : r.url # content.url } \cup {TrackingRow(content, file_id)}

TrackedUrls(t) == { r.url : r \in t }

RowOf(t, u) == CHOOSE r \in t : r.url = u

\* url -> content_hash of the tracked pages, and of a list of pages
Hashes(t) == [u \in TrackedUrls(t) |-> RowOf(t, u).content_hash]

HashesOf(list) ==
    [u \in { list[i].url : i \in 1..Len(list) } |->
        list[CHOOSE i \in 1..Len(list) : list[i].url = u].content_hash]

Fault(h) == [h EXCEPT !.faults = @ + 1]

InitUpdate ==
    /\ CrawlInit("any")
    /\ UrlIdle
    /\ PageIdle
    /\ UpdIdle
    /\ RestIdle

\* update_vector_store_content is entered and clean_vector_store lists the
\* files of the vector store
UpdateVectorStoreContent ==
    /\ upc = "idle"
    /\ update_no < MaxUpdates
    /\ update_no' = update_no + 1
    /\ \E list \in CrawlResults :
          /\ ~NoContent(list)
          /\ fresh' = [i \in 1..Len(list) |-> FreshContent(list[i], update_no + 1)]
    /\ new_file_ids' = <<>>
    /\ upload_idx' = 0
    /\ update_result' = NoUpdateResult
    /\ deleted_count' = 0
    /\ failed_count' = 0
    /\ \E o \in ListOutcomes :
          LET h == [upd_hist EXCEPT !.stored_before = Hashes(tracking)]
          IN  IF o = "ok"
              THEN /\ files_response' = ListedFiles(vs_files)
                   /\ upd_hist' = h
                   /\ upc' = "clean"
              ELSE /\ files_response' = {}
                   /\ upd_hist' = Fault(h)
                   /\ upc' = "raised"
    /\ UNCHANGED <<tracking, vs_files, oa_files, next_file_id, batch_status>>
    /\ UNCHANGED <<crawlVars, urlVars, pageVars, kbVars, restVars>>

\* the crawl of update_knowledge_base returned no pages:
\* return {"error": "No content scraped"}
NoContentScraped ==
    /\ upc = "idle"
    /\ \E list \in CrawlResults : NoContent(list)
    /\ upc' = "empty"
    /\ UNCHANGED <<fresh, tracking, vs_files, oa_files, files_response, deleted_count,
                   failed_count, new_file_ids, upload_idx, update_result, next_file_id,
                   update_no, batch_status, upd_hist>>
    /\ UNCHANGED <<crawlVars, urlVars, pageVars, kbVars, restVars>>

\* one pass of "for file in files_response.data"
DeleteFile ==
    /\ upc = "clean"
    /\ files_response # {}
    /\ LET file == CHOOSE f \in files_response : \A g \in files_response : f <= g IN
       /\ files_response' = files_response \ {file}
       /\ \E o \in DeleteOutcomes :
            /\ vs_files' = IF o = "vs_delete_error" THEN vs_files ELSE vs_files \ {file}
            /\ oa_files' = IF o = "ok" THEN oa_files \ {file} ELSE oa_files
            /\ deleted_count' = IF o = "ok" THEN deleted_count + 1 ELSE deleted_count
            /\ failed_count' = IF o = "ok" THEN failed_count ELSE failed_count + 1
            /\ upd_hist' =
                 IF o = "ok" THEN [upd_hist EXCEPT !.deletes = @ + 1]
                 ELSE IF o = "file_delete_error"
                      THEN Fault([upd_hist EXCEPT !.deletes = @ + 1])
                      ELSE Fault(upd_hist)
    /\ UNCHANGED <<upc, fresh, tracking, new_file_ids, upload_idx, update_result,
                   next_file_id, update_no, batch_status>>
    /\ UNCHANGED <<crawlVars, urlVars, pageVars, kbVars, restVars>>

\* self.db_manager.clear_content_tracking() and the return of
\* clean_vector_store
ClearContentTracking ==
    /\ upc = "clean"
    /\ files_response = {}
    /\ \E o \in ClearOutcomes :
         IF o = "ok"
         THEN /\ tracking' = clear_content_tracking(tracking)
              /\ upd_hist' = [upd_hist EXCEPT
                                !.cleared = Cardinality(tracking
                                                \ clear_content_tracking(tracking))]
              /\ upload_idx' = 1
              /\ upc' = "upload"
         ELSE /\ upd_hist' = Fault(upd_hist)
              /\ upc' = "raised"
              /\ UNCHANGED <<tracking, upload_idx>>
    /\ UNCHANGED <<fresh, vs_files, oa_files, files_response, deleted_count,
                   failed_count, new_file_ids, update_result, next_file_id, update_no,
                   batch_status>>
    /\ UNCHANGED <<crawlVars, urlVars, pageVars, kbVars, restVars>>

\* one pass of "for content in content_list"
UploadPage ==
    /\ upc = "upload"
    /\ upload_idx <= Len(fresh)
    /\ upload_idx' = upload_idx + 1
    /\ \E o \in UploadOutcomes :
         IF o = "create_error"
         THEN /\ upd_hist' = Fault([upd_hist EXCEPT
                                       !.upload_failed = @ \cup {fresh[upload_idx].url}])
              /\ UNCHANGED <<oa_files, new_file_ids, next_file_id, tracking>>
         ELSE /\ oa_files' = oa_files \cup {next_file_id}
              /\ new_file_ids' = Append(new_file_ids, next_file_id)
              /\ next_file_id' = next_file_id + 1
              /\ IF o = "ok"
                 THEN /\ tracking' = save_content_tracking(tracking, fresh[upload_idx],
                                                           next_file_id)
                      /\ upd_hist' =
                           [upd_hist EXCEPT
                              !.uploads = @ + 1,
                              !.writes = @ + (IF tracking' = tracking THEN 0 ELSE 1)]
                 ELSE /\ upd_hist' = Fault([upd_hist EXCEPT
                                              !.uploads = @ + 1,
                                              !.upload_failed = @ \cup {fresh[upload_idx].url}])
                      /\ UNCHANGED tracking
    /\ UNCHANGED <<upc, fresh, vs_files, files_response, deleted_count, failed_count,
                   update_result, update_no, batch_status>>
    /\ UNCHANGED <<crawlVars, urlVars, pageVars, kbVars, restVars>>

\* the dictionary update_vector_store_content returns
UpdateResult ==
    [new |-> Len(new_file_ids), updated |-> 0, total |-> Len(new_file_ids),
     cleaned |-> deleted_count, set |-> TRUE]

\* a batch created with no file ids
NoNewFileIds == {}

NewFileIds == { new_file_ids[i] : i \in 1..Len(new_file_ids) }

\* after the upload loop: "if new_file_ids:" file_batches.create, else return
BatchCreate ==
    /\ upc = "upload"
    /\ upload_idx > Len(fresh)
    /\ IF new_file_ids = <<>>
       THEN /\ update_result' = UpdateResult
            /\ upc' = "returned"
            /\ UNCHANGED <<batch_status, upd_hist>>
       ELSE \E o \in BatchCreateOutcomes :
              IF o = "api_error"
              THEN /\ upc' = "raised"
                   /\ upd_hist' = Fault(upd_hist)
                   /\ UNCHANGED <<batch_status, update_result>>
              ELSE /\ upc' = "poll"
                   /\ batch_status' = "in_progress"
                   /\ UNCHANGED <<update_result, upd_hist>>
    /\ UNCHANGED <<fresh, tracking, vs_files, oa_files, files_response, deleted_count,
                   failed_count, new_file_ids, upload_idx, next_file_id, update_no>>
    /\ UNCHANGED <<crawlVars, urlVars, pageVars, kbVars, restVars>>

\* OpenAI ends the processing of the batch: every file is attached when it
\* completes, some of them when it fails
BatchProgress ==
    /\ upc = "poll"
    /\ batch_status = "in_progress"
    /\ \E ending \in BatchEndings :
         /\ batch_status' = ending
         /\ IF ending = "completed"
            THEN vs_files' = vs_files \cup NewFileIds
            ELSE \E some \in SUBSET NewFileIds :
                    some # NewFileIds /\ vs_files' = vs_files \cup some
    /\ UNCHANGED <<upc, fresh, tracking, oa_files, files_response, deleted_count,
                   failed_count, new_file_ids, upload_idx, update_result,
                   next_file_id, update_no, upd_hist>>
    /\ UNCHANGED <<crawlVars, urlVars, pageVars, kbVars, restVars>>

\* file_batches.retrieve raises while the program waits
PollRaises ==
    /\ upc = "poll"
    /\ BatchWaits(batch_status)
    /\ upc' = "raised"
    /\ upd_hist' = Fault(upd_hist)
    /\ UNCHANGED <<fresh, tracking, vs_files, oa_files, files_response, deleted_count,
                   failed_count, new_file_ids, upload_idx, update_result,
                   next_file_id, update_no, batch_status>>
    /\ UNCHANGED <<crawlVars, urlVars, pageVars, kbVars, restVars>>

\* the while loop is left once the retrieved status is no longer one it
\* waits on; the status is logged and the result returned
PollReturn ==
    /\ upc = "poll"
    /\ ~BatchWaits(batch_status)
    /\ update_result' = UpdateResult
    /\ upc' = "returned"
    /\ upd_hist' = IF batch_status = "completed" THEN upd_hist ELSE Fault(upd_hist)
    /\ UNCHANGED <<fresh, tracking, vs_files, oa_files, files_response, deleted_count,
                   failed_count, new_file_ids, upload_idx, next_file_id, update_no,
                   batch_status>>
    /\ UNCHANGED <<crawlVars, urlVars, pageVars, kbVars, restVars>>

\* what update_knowledge_base hands to its caller
KbResult ==
    IF upc = "returned" THEN "success"
    ELSE IF upc \in {"raised", "empty"} THEN "error" ELSE "none"

\* the caller has the result, or the error it turns into {"error": ...};
\* the locals of the call are gone
UpdateDone ==
    /\ upc \in {"returned", "raised", "empty"}
    /\ last_update' = IF upc = "returned" THEN update_no ELSE last_update
    /\ upc' = "idle"
    /\ fresh' = <<>>
    /\ files_response' = {}
    /\ deleted_count' = 0
    /\ failed_count' = 0
    /\ new_file_ids' = <<>>
    /\ upload_idx' = 0
    /\ update_result' = NoUpdateResult
    /\ batch_status' = "none"
    /\ upd_hist' = IF upc = "empty" THEN upd_hist
                   ELSE [NoHistory EXCEPT
                           !.before = HashesOf(fresh),
                           !.before_ok = (upc = "returned" /\ upd_hist.faults = 0)]
    /\ UNCHANGED <<tracking, vs_files, oa_files, next_file_id, update_no>>
    /\ UNCHANGED <<crawlVars, urlVars, pageVars, restVars>>

NextUpdate ==
    \/ NoContentScraped
    \/ UpdateVectorStoreContent
    \/ DeleteFile
    \/ ClearContentTracking
    \/ UploadPage
    \/ BatchCreate
    \/ BatchProgress
    \/ PollRaises
    \/ PollReturn
    \/ UpdateDone

SpecUpdate == InitUpdate /\ [][NextUpdate]_vars

\* the steps of the program; when the batch ends and whether a call fails is
\* up to OpenAI
UpdateStep ==
    DeleteFile \/ ClearContentTracking \/ UploadPage \/ BatchCreate \/ PollReturn
        \/ UpdateDone

FairSpecUpdate == SpecUpdate /\ WF_vars(UpdateStep)

\* ------------------------------------------------------ overlapping runs
\* scheduled_update runs update_knowledge_base on the scheduler thread; a
\* request thread runs it for /api/update-knowledge and /api/reinit, and
\* clean_vector_store for /api/vector-store/clean.  No lock is taken.
KindsOf(t) == IF t = "scheduler" THEN {"update"} ELSE {"update", "clean"}

\* what the crawl of a run returns: nothing, or pages with distinct URLs
JobLists == { list \in FreshLists : \A i \in 1..Len(list) : list[i].version = 1 }
                \cup {<<>>}

InitOverlap == CrawlInit("jobs") /\ OtherInit

\* the call is entered
JobStart(t) ==
    /\ world = "jobs"
    /\ job[t].pc = "idle"
    /\ jobs_started < MaxJobs
    /\ jobs_started' = jobs_started + 1
    /\ \E kind \in KindsOf(t) :
         job' = [job EXCEPT ![t] = [IdleJob EXCEPT
                                      !.kind = kind,
                                      !.pc = IF kind = "clean" THEN "clean" ELSE "crawl"]]
    /\ UNCHANGED <<storeVars, updLocals, crawlVars, urlVars, pageVars, kbVars, chatVars>>

\* scrape_website_exhaustive returns; "if not content_list: return"
JobCrawl(t) ==
    /\ job[t].pc = "crawl"
    /\ \E list \in JobLists :
         job' = [job EXCEPT ![t] =
                   IF NoContent(list) THEN IdleJob
                   ELSE [@ EXCEPT !.pc = "clean",
                                  !.content = [i \in 1..Len(list) |->
                                                 FreshContent(list[i], jobs_started)]]]
    /\ UNCHANGED <<jobs_started, storeVars, updLocals, crawlVars, urlVars, pageVars, kbVars, chatVars>>

\* clean_vector_store up to the end of its loop: every listed file is
\* deleted, or one of its two deletions raises
JobCleanFiles(t) ==
    /\ job[t].pc = "clean"
    /\ \E outcome \in [ListedFiles(vs_files) -> DeleteOutcomes] :
         /\ vs_files' = { f \in vs_files :
                            f \in DOMAIN outcome /\ outcome[f] = "vs_delete_error" }
         /\ oa_files' = { f \in oa_files :
                            f \in DOMAIN outcome => outcome[f] # "ok" }
    /\ job' = [job EXCEPT ![t].pc = "clear"]
    /\ UNCHANGED <<tracking, next_file_id, jobs_started, updLocals, crawlVars, urlVars,
                   pageVars, kbVars, chatVars>>

\* clear_content_tracking() and the return of clean_vector_store
JobClear(t) ==
    /\ job[t].pc = "clear"
    /\ tracking' = clear_content_tracking(tracking)
    /\ job' = [job EXCEPT ![t] =
                 IF @.kind = "clean" THEN IdleJob
                 ELSE [@ EXCEPT !.pc = "upload", !.idx = 1]]
    /\ UNCHANGED <<vs_files, oa_files, next_file_id, jobs_started, updLocals, crawlVars,
                   urlVars, pageVars, kbVars, chatVars>>

\* one pass of "for content in content_list"
JobUpload(t) ==
    /\ job[t].pc = "upload"
    /\ job[t].idx <= Len(job[t].content)
    /\ \E o \in UploadOutcomes :
         IF o = "create_error"
         THEN /\ job' = [job EXCEPT ![t].idx = @ + 1]
              /\ UNCHANGED <<oa_files, next_file_id, tracking>>
         ELSE /\ oa_files' = oa_files \cup {next_file_id}
              /\ next_file_id' = next_file_id + 1
              /\ job' = [job EXCEPT ![t].idx = @ + 1,
                                    ![t].ids = Append(@, next_file_id)]
              /\ IF o = "ok"
                 THEN tracking' = save_content_tracking(tracking,
                                      job[t].content[job[t].idx], next_file_id)
                 ELSE UNCHANGED tracking
    /\ UNCHANGED <<vs_files, jobs_started, updLocals, crawlVars, urlVars, pageVars, kbVars, chatVars>>

\* the file batch and the return of the call
JobBatch(t) ==
    /\ job[t].pc = "upload"
    /\ job[t].idx > Len(job[t].content)
    /\ LET ids == { job[t].ids[i] : i \in 1..Len(job[t].ids) } IN
       IF ids = {} THEN UNCHANGED vs_files
       ELSE \E ending \in BatchEndings :
              IF ending = "completed" THEN vs_files' = vs_files \cup ids
              ELSE \E some \in SUBSET ids : some # ids /\ vs_files' = vs_files \cup some
    /\ job' = [job EXCEPT ![t] = IdleJob]
    /\ last_update' = jobs_started
    /\ UNCHANGED <<tracking, oa_files, next_file_id, jobs_started, updLocals, crawlVars,
                   urlVars, pageVars, chatVars>>

NextOverlap ==
    \E t \in Threads :
        \/ JobStart(t)
        \/ JobCrawl(t)
        \/ JobCleanFiles(t)
        \/ JobClear(t)
        \/ JobUpload(t)
        \/ JobBatch(t)

SpecOverlap == InitOverlap /\ [][NextOverlap]_vars

\* the crawl followed step by step, or overlapping runs on the store
InitRecords == Init \/ InitOverlap

SpecRecords == InitRecords /\ [][Next \/ NextOverlap]_vars

\* ------------------------------------------------------------------ chat
ChatWorlds == {"serial", "concurrent", "anonymous"}

\* f"web_{int(time.time())}" at the second t
WebId(t) == <<"web_0", "web_1", "web_2", "web_3">>[t + 1]

\* data.get('externalId', f"web_{int(time.time())}"): the id of a request
\* received at the second t
IdsReceived(w, t) == IF w = "anonymous" THEN {WebId(t)} ELSE ExternalIds

DbOutcomes == {"ok", "db_error"}

ApiOutcomes == {"ok", "api_error"}

ListOutcomesOfRun == {"text", "empty", "api_error"}

\* the statuses a run is seen in
RunStatuses == {"in_progress", "completed", "failed"}

\* what runs.retrieve shows; with two requests at a time the first retrieve
\* shows the run finished
RunStatusesOf(w) == IF w = "serial" THEN RunStatuses ELSE {"completed", "failed"}

\* time.sleep(1): the clock is followed where ids are taken from it
Slept(w, t) == IF w = "anonymous" THEN t + 1 ELSE t

\* "while run.status in ['queued', 'in_progress', 'cancelling']"
RunWaits(status) == status \in {"queued", "in_progress", "cancelling"}

\* "and wait_time < max_wait_time"
WaitLeft(w) == w < max_wait_time

\* "except Exception as e" around the whole body of get_response
GetResponseCaughtApiOnly(o) == o = "api_error"

GetResponseCaught(o) == TRUE

\* INSERT OR REPLACE INTO conversation_threads
SkipMapping(m, external_id, thread_id) == m

save_thread_mapping(m, external_id, thread_id) ==
    [i \in DOMAIN m \cup {external_id} |-> IF i = external_id THEN thread_id ELSE m[i]]

\* SELECT thread_id ... WHERE external_id = ?; None is 0
get_thread_id(m, external_id) == IF external_id \in DOMAIN m THEN m[external_id] ELSE 0

\* DELETE FROM conversation_threads WHERE external_id = ?
DeleteMapping(m, external_id) == [i \in DOMAIN m \ {external_id} |-> m[i]]

\* the two dictionaries get_response returns on failure, and the one on
\* success
RunFailedReply(tid) == [success |-> FALSE, text |-> "problema tecnico", thread_id |-> tid]

ExceptionReply(tid) == [success |-> FALSE, text |-> "problemita tecnico", thread_id |-> tid]

SuccessReply(tid) == [success |-> TRUE, text |-> "response", thread_id |-> tid]

\* an exception o is raised inside get_response of request r
Raised(r, o) ==
    IF GetResponseCaught(o)
    THEN req' = [req EXCEPT ![r].pc = "done",
                            ![r].result = ExceptionReply(req[r].thread_id)]
    ELSE req' = [req EXCEPT ![r].pc = "raised"]

InitChat(w) ==
    /\ CrawlInit(w)
    /\ OtherInit

\* webhook_chat receives a message for an external id and calls get_response
WebhookChat(r) ==
    /\ world \in ChatWorlds
    /\ req[r].pc = "idle"
    /\ world = "serial" => \A q \in Slots : req[q].pc = "idle"
    /\ received < MaxRequests
    /\ received' = received + 1
    /\ \E id \in IdsReceived(world, clock) :
         req' = [req EXCEPT ![r] = [IdleReq EXCEPT !.pc = "lookup",
                                                  !.external_id = id,
                                                  !.seq = received + 1,
                                                  !.epoch = epoch[id]]]
    /\ UNCHANGED <<conversation_threads, oa_threads, epoch, clock>>
    /\ UNCHANGED <<crawlVars, urlVars, pageVars, updVars, kbVars, jobVars>>

\* thread_id = self.db_manager.get_thread_id(external_id)
GetThreadId(r) ==
    /\ req[r].pc = "lookup"
    /\ \E o \in DbOutcomes :
         IF o = "ok"
         THEN LET tid == get_thread_id(conversation_threads, req[r].external_id) IN
              req' = [req EXCEPT ![r].thread_id = tid,
                                 ![r].pc = IF tid = 0 THEN "create" ELSE "message"]
         ELSE Raised(r, o)
    /\ UNCHANGED <<conversation_threads, oa_threads, received, epoch, clock>>
    /\ UNCHANGED <<crawlVars, urlVars, pageVars, updVars, kbVars, jobVars>>

\* thread = self.client.beta.threads.create()
CreateThread(r) ==
    /\ req[r].pc = "create"
    /\ \E o \in ApiOutcomes :
         IF o = "ok"
         THEN /\ oa_threads' = Append(oa_threads, <<>>)
              /\ req' = [req EXCEPT ![r].thread_id = Len(oa_threads) + 1,
                                    ![r].pc = "save"]
         ELSE Raised(r, o) /\ UNCHANGED oa_threads
    /\ UNCHANGED <<conversation_threads, received, epoch, clock>>
    /\ UNCHANGED <<crawlVars, urlVars, pageVars, updVars, kbVars, jobVars>>

\* self.db_manager.save_thread_mapping(external_id, thread_id)
SaveThreadMapping(r) ==
    /\ req[r].pc = "save"
    /\ \E o \in DbOutcomes :
         IF o = "ok"
         THEN /\ conversation_threads' =
                    save_thread_mapping(conversation_threads, req[r].external_id,
                                        req[r].thread_id)
              /\ req' = [req EXCEPT ![r].pc = "message"]
         ELSE Raised(r, o) /\ UNCHANGED conversation_threads
    /\ UNCHANGED <<oa_threads, received, epoch, clock>>
    /\ UNCHANGED <<crawlVars, urlVars, pageVars, updVars, kbVars, jobVars>>

\* self.client.beta.threads.messages.create(thread_id, role="user", ...)
CreateMessage(r) ==
    /\ req[r].pc = "message"
    /\ \E o \in ApiOutcomes :
         IF o = "ok"
         THEN /\ oa_threads' =
                    [oa_threads EXCEPT ![req[r].thread_id] =
                        Append(@, [external_id |-> req[r].external_id,
                                   epoch |-> req[r].epoch, seq |-> req[r].seq])]
              /\ req' = [req EXCEPT ![r].pc = "run"]
         ELSE Raised(r, o) /\ UNCHANGED oa_threads
    /\ UNCHANGED <<conversation_threads, received, epoch, clock>>
    /\ UNCHANGED <<crawlVars, urlVars, pageVars, updVars, kbVars, jobVars>>

\* run = self.client.beta.threads.runs.create(...); wait_time = 0
CreateRun(r) ==
    /\ req[r].pc = "run"
    /\ \E o \in ApiOutcomes :
         IF o = "ok"
         THEN \E st \in RunStatuses :
                req' = [req EXCEPT ![r].status = st, ![r].wait_time = 0,
                                   ![r].pc = "poll"]
         ELSE Raised(r, o)
    /\ UNCHANGED <<conversation_threads, oa_threads, received, epoch, clock>>
    /\ UNCHANGED <<crawlVars, urlVars, pageVars, updVars, kbVars, jobVars>>

\* one pass of the while loop: sleep, wait_time += 1, runs.retrieve
PollRun(r) ==
    /\ req[r].pc = "poll"
    /\ RunWaits(req[r].status) /\ WaitLeft(req[r].wait_time)
    /\ Slept(world, clock) <= MaxSeconds
    /\ clock' = Slept(world, clock)
    /\ \E o \in ApiOutcomes :
         IF o = "ok"
         THEN \E st \in RunStatusesOf(world) :
                req' = [req EXCEPT ![r].status = st, ![r].wait_time = @ + 1]
         ELSE Raised(r, o)
    /\ UNCHANGED <<conversation_threads, oa_threads, received, epoch>>
    /\ UNCHANGED <<crawlVars, urlVars, pageVars, updVars, kbVars, jobVars>>

\* after the loop: the answer is read when the run completed, else the
\* apology is returned
FinishRun(r) ==
    /\ req[r].pc = "poll"
    /\ ~(RunWaits(req[r].status) /\ WaitLeft(req[r].wait_time))
    /\ IF req[r].status = "completed"
       THEN \E o \in ListOutcomesOfRun :
              IF o = "text"
              THEN req' = [req EXCEPT ![r].pc = "done",
                                      ![r].result = SuccessReply(req[r].thread_id)]
              ELSE IF o = "empty"
              THEN req' = [req EXCEPT ![r].pc = "done",
                                      ![r].result = RunFailedReply(req[r].thread_id)]
              ELSE Raised(r, "api_error")
       ELSE req' = [req EXCEPT ![r].pc = "done",
                               ![r].result = RunFailedReply(req[r].thread_id)]
    /\ UNCHANGED <<conversation_threads, oa_threads, received, epoch, clock>>
    /\ UNCHANGED <<crawlVars, urlVars, pageVars, updVars, kbVars, jobVars>>

\* webhook_chat sends the reply
Respond(r) ==
    /\ req[r].pc = "done"
    /\ req' = [req EXCEPT ![r] = IdleReq]
    /\ UNCHANGED <<conversation_threads, oa_threads, received, epoch, clock>>
    /\ UNCHANGED <<crawlVars, urlVars, pageVars, updVars, kbVars, jobVars>>

\* POST /api/threads/<external_id>/clear
ClearThread(id) ==
    /\ world \in ChatWorlds
    /\ world = "serial" => \A q \in Slots : req[q].pc = "idle"
    /\ id \in DOMAIN conversation_threads
    /\ conversation_threads' = DeleteMapping(conversation_threads, id)
    /\ epoch' = [epoch EXCEPT ![id] = @ + 1]
    /\ UNCHANGED <<oa_threads, req, received, clock>>
    /\ UNCHANGED <<crawlVars, urlVars, pageVars, updVars, kbVars, jobVars>>

\* a second passes
Tick ==
    /\ world = "anonymous"
    /\ clock < MaxSeconds
    /\ clock' = clock + 1
    /\ UNCHANGED <<conversation_threads, oa_threads, req, received, epoch>>
    /\ UNCHANGED <<crawlVars, urlVars, pageVars, updVars, kbVars, jobVars>>

ChatStep(r) ==
    \/ GetThreadId(r)
    \/ CreateThread(r)
    \/ SaveThreadMapping(r)
    \/ CreateMessage(r)
    \/ CreateRun(r)
    \/ PollRun(r)
    \/ FinishRun(r)
    \/ Respond(r)

NextChat ==
    \/ \E r \in Slots : WebhookChat(r) \/ ChatStep(r)
    \/ \E id \in ExternalIds \cup WebIds : ClearThread(id)

\* requests served one at a time
SpecChat == InitChat("serial") /\ [][NextChat]_vars

\* every call get_response makes returns or raises, so a request that is
\* being served keeps taking steps
FairSpecChat == SpecChat /\ \A r \in Slots : WF_vars(ChatStep(r))

\* two requests served at a time
SpecChatConcurrent == InitChat("concurrent") /\ [][NextChat]_vars

\* requests without externalId, two served at a time, while the clock runs
SpecAnonymous == InitChat("anonymous") /\ [][NextChat \/ Tick]_vars

\* ------------------------------------------------------------ properties
Range(s) == { s[i] : i \in 1..Len(s) }

Gets(u, sc, lg) == CopiesIn(u, sc) + CopiesIn(u, lg)

\* the URLs of the frontier that the run has still to process
Pending ==
    IF pc \in {"idle", "done", "raised"} THEN {}
    ELSE UNION { Range(urls_by_depth[d]) : d \in { e \in DOMAIN urls_by_depth : e > current_depth } }
         \cup (IF pc \in {"for", "scrape", "links", "level_end"} THEN next_level_urls ELSE {})
         \cup (IF pc \in {"for", "scrape", "links"}
               THEN { urls_by_depth[current_depth][i] :
                        i \in { j \in 1..Len(urls_by_depth[current_depth]) :
                                  IF pc = "for" THEN j >= idx ELSE j > idx } }
               ELSE {})

StripFragment(url) ==
    IF IndexOf(url, "#") = 0 THEN url ELSE SubSeq(url, 1, IndexOf(url, "#") - 1)

\* C1: every crawl run that has started reaches its return, and the list it
\* has collected never holds more than max_pages records.
C1_TerminatesWithinBudget ==
    /\ [](Len(content_list) <= max_pages)
    /\ (pc = "while") ~> (pc = "done")

C1_Witness ==
    /\ pc = "done"
    /\ max_pages >= 1
    /\ Len(content_list) = max_pages
    /\ current_depth < max_depth

\* C2: every crawl run starts with empty visited and failed sets, and a run
\* with a budget of at least one page and one level fetches the seed.
C2_RunStartsFresh ==
    /\ (pc = "while" /\ current_depth = 0) => (visited_urls = {} /\ failed_urls = {})
    /\ (pc = "done" /\ max_pages > 0 /\ max_depth > 0)
          => BagIn(normalize_url(base_url), scrape_calls)

C4_CollectionsDisjoint ==
    /\ visited_urls \cap failed_urls = {}
    /\ Pending \cap visited_urls = {}
    /\ Pending \cap failed_urls = {}

\* C5: hrefs that differ only in their fragment have the same normalized URL,
\* and in one run scrape_page requests each URL at most once.
C5_Dedup ==
    /\ \A g, h \in Hrefs :
          StripFragment(g) = StripFragment(h) => normalize_url(g) = normalize_url(h)
    /\ \A u \in BagToSet(scrape_calls) : CopiesIn(u, scrape_calls) <= 1

C5_Witness ==
    /\ pc = "level_end"
    /\ current_depth = 2
    /\ \E u \in Range(urls_by_depth[2]) :
          /\ CopiesIn(u, scrape_calls) = 1
          /\ \E g, h \in Hrefs : g # h /\ normalize_url(g) = u /\ normalize_url(h) = u

\* C6: once the fetch of a URL has failed in a run, no step of that run
\* issues another GET to it.
C6_NoGetAfterFailure ==
    [][ pc # "idle" =>
          \A u \in fetch_failed :
              Gets(u, scrape_calls', link_gets') = Gets(u, scrape_calls, link_gets) ]_vars

\* C7: every URL whose fetch failed (timeout, connection error, non-2xx
\* status, non-HTML content type) is in failed_urls once scrape_page has
\* returned, and has no record in the result.
C7_FailedFetchRecorded ==
    /\ fetch_failed \subseteq failed_urls
    /\ \A i \in 1..Len(content_list) : content_list[i].url \notin fetch_failed

\* C8: no failure escapes scrape_website_exhaustive as an exception, and a
\* run that returns has either used up its page budget or processed every
\* URL of every frontier level.
C8_FailureNeverAborts ==
    /\ pc # "raised"
    /\ pc = "done" =>
          \/ Len(content_list) >= max_pages
          \/ \A d \in DOMAIN urls_by_depth :
                d < max_depth =>
                    \A i \in 1..Len(urls_by_depth[d]) :
                        normalize_url(urls_by_depth[d][i]) \in visited_urls

C8_Witness ==
    /\ pc = "done"
    /\ normalize_url(base_url) \in fetch_failed
    /\ Len(content_list) >= 1
    /\ Len(content_list) < max_pages

\* C9: link extraction places no URL in the frontier that matches a
\* denylisted extension or path pattern.
C9_NoDenylistedInFrontier ==
    /\ \A u \in next_level_urls : ~skip_patterns(u)
    /\ \A d \in DOMAIN urls_by_depth :
          d > 0 => \A i \in 1..Len(urls_by_depth[d]) : ~skip_patterns(urls_by_depth[d][i])

\* C10: every URL that link extraction adds to the next frontier level has
\* the host of the seed's domain and is, when added, neither in visited_urls
\* nor in failed_urls.
C10_AddedLinksValid ==
    [][ \A u \in next_level_urls' \ next_level_urls :
          /\ urlparse(u).netloc = urlparse(base_url).netloc
          /\ u \notin visited_urls
          /\ u \notin failed_urls ]_vars

C10_Witness ==
    /\ pc = "for"
    /\ next_level_urls # {}
    /\ failed_urls # {}
    /\ current_depth >= 1

\* C11: every frontier level after level 0 holds at most 50 URLs.
C11_FanOutCapped ==
    \A d \in DOMAIN urls_by_depth : d > 0 => Len(urls_by_depth[d]) <= 50

C11_Witness ==
    /\ pc = "while"
    /\ current_depth = 1
    /\ Cardinality(next_level_urls) > 50
    /\ Len(urls_by_depth[1]) = 50

\* C12: a link-discovery request is made for a page only below the last
\* level and while fewer than max_pages records have been collected.
C12_LinksOnlyWithinBudget ==
    [][ (pc = "links" /\ link_gets' # link_gets) =>
            /\ current_depth < max_depth - 1
            /\ Len(content_list) < max_pages ]_vars

\* C13 as stated: a page whose extracted body is shorter than 200 characters
\* yields no record.
C13_ShortBodyNoRecord ==
    page_result.outcome = "ok" => page_result.body >= 200

\* C13 as amended: a page yields a record exactly when its extracted body is
\* longer than 50 characters.
C13_GateAtFifty ==
    page_result.outcome # "none" =>
        (page_result.outcome = "ok" <=> page_result.body > 50)

C13_Witness ==
    /\ page_result.outcome = "thin"
    /\ page_result.body = 50
    /\ page.doc > 50

\* C14: the result list is in fetch order: a record of depth d precedes every
\* record of depth d+1, and within a level the records follow the order in
\* which their URLs were enqueued (a URL found on an earlier page of the
\* previous level precedes a URL found on a later page).
C14_FetchOrder ==
    \A i, j \in DOMAIN record_meta :
        i < j =>
            /\ record_meta[i].depth <= record_meta[j].depth
            /\ record_meta[i].depth = record_meta[j].depth =>
                   record_meta[i].by <= record_meta[j].by

\* C15: no page at depth >= max_depth is fetched or returned; on the tree
\* site a crawl with max_pages=5, max_depth=2 returns the root followed by
\* the 3 depth-1 pages and ends with at least 4 visited URLs.
C15_DepthBoundAndScenario ==
    /\ pc \in {"scrape", "links"} => current_depth < max_depth
    /\ \A i \in DOMAIN record_meta : record_meta[i].depth < max_depth
    /\ (world = "tree" /\ pc = "done" /\ max_pages = 5 /\ max_depth = 2) =>
           /\ Len(content_list) = 4
           /\ content_list[1].url = base_url
           /\ { content_list[i].url : i \in 2..4 } = TreeLinks(base_url)
           /\ Cardinality(visited_urls) >= 4

\* C16: normalize_url is idempotent: normalising its result returns the
\* result.
C16_Idempotent ==
    Len(url_out) = 2 => url_out[2] = url_out[1]

\* C17: normalize_url only strips the fragment and removes a single trailing
\* "/": host and query are returned untouched and the path loses at most one
\* trailing "/".
C17_OnlyFragmentAndOneSlash ==
    Len(url_out) >= 1 =>
        LET before == urlparse(url_in)
            after  == urlparse(url_out[1])
        IN  /\ after.netloc = before.netloc
            /\ after.fragment = <<>>
            /\ after.query = before.query
            /\ \/ after.path = before.path
               \/ after.path \o <<"/">> = before.path

\* the stored corpus when the update started, and the fresh pages
StoredWas(h) == upd_hist.stored_before = h

FreshIs(h) == fresh # <<>> /\ HashesOf(fresh) = h

\* the update has returned and none of its calls failed
ReturnedClean == upc = "returned" /\ upd_hist.faults = 0

\* C18 as stated: with {A: h1} stored and {A: h1, B: h2} crawled, A is left
\* alone and B is uploaded (1 new, 0 changed), and the store ends with
\* exactly {A: h1, B: h2}.
C18_ClassifiesUnchangedAndNew ==
    (ReturnedClean /\ StoredWas("A" :> 1) /\ FreshIs("A" :> 1 @@ "B" :> 2)) =>
        /\ update_result.new = 1
        /\ update_result.updated = 0
        /\ upd_hist.deletes = 0
        /\ upd_hist.uploads = 1
        /\ Hashes(tracking) = ("A" :> 1 @@ "B" :> 2)

\* C18 as amended: with {A: h1} stored and {A: h1, B: h2} crawled, every
\* fresh page is uploaded and reported as new, nothing is reported as
\* updated, and the tracked pages are fresh pages; when no call fails A's
\* previous file is deleted, 2 pages are reported new and the store ends with
\* exactly {A: h1, B: h2}.
C18_WipesAndUploadsAll ==
    (upc = "returned" /\ StoredWas("A" :> 1) /\ FreshIs("A" :> 1 @@ "B" :> 2)) =>
        /\ update_result.new = Len(new_file_ids)
        /\ update_result.new = upd_hist.uploads
        /\ update_result.updated = 0
        /\ \A r \in tracking :
               r.url \in DOMAIN HashesOf(fresh)
                  /\ r.content_hash = HashesOf(fresh)[r.url]
        /\ upd_hist.faults = 0 =>
               /\ update_result.new = 2
               /\ Hashes(tracking) = ("A" :> 1 @@ "B" :> 2)
               /\ upd_hist.before_ok => update_result.cleaned = 1

C18_Witness ==
    /\ ReturnedClean
    /\ upd_hist.before_ok
    /\ StoredWas("A" :> 1)
    /\ FreshIs("A" :> 1 @@ "B" :> 2)
    /\ update_result.new = 2

\* C19 as stated: with {A: h1} stored and A crawled with hash h2, A is
\* classified as changed and its stored hash, title and timestamp are the
\* fresh page's.
C19_ClassifiesChanged ==
    (ReturnedClean /\ StoredWas("A" :> 1) /\ FreshIs("A" :> 2)) =>
        /\ update_result.updated = 1
        /\ "A" \in TrackedUrls(tracking)
        /\ RowOf(tracking, "A").content_hash = 2
        /\ RowOf(tracking, "A").title = 2
        /\ RowOf(tracking, "A").last_updated = update_no

\* C19 as amended: with {A: h1} stored and A crawled with hash h2, A is
\* reported as new and never as updated; a stored record of A carries the
\* hash, title, timestamp and file of the fresh page, and when no call fails
\* there is one.
C19_ReplacedAsNew ==
    (upc = "returned" /\ StoredWas("A" :> 1) /\ FreshIs("A" :> 2)) =>
        /\ update_result.updated = 0
        /\ update_result.new = Len(new_file_ids)
        /\ \A r \in tracking :
               /\ new_file_ids # <<>>
               /\ r = [url |-> "A", title |-> 2, content_hash |-> 2,
                       file_id |-> new_file_ids[1], last_updated |-> update_no]
        /\ upd_hist.faults = 0 =>
               "A" \in TrackedUrls(tracking) /\ update_result.new = 1

C19_Witness ==
    /\ ReturnedClean
    /\ StoredWas("A" :> 1)
    /\ FreshIs("A" :> 2)
    /\ "A" \in TrackedUrls(tracking)
    /\ RowOf(tracking, "A").content_hash = 2

\* the update before this one returned without a failed call and had the
\* same pages
SecondRunSamePages ==
    /\ ReturnedClean
    /\ upd_hist.before_ok
    /\ FreshIs(upd_hist.before)

\* C20 as stated: a second update with the same fresh pages deletes nothing,
\* uploads nothing and writes no tracking row.
C20_SecondRunNoMutation ==
    SecondRunSamePages =>
        /\ upd_hist.deletes = 0
        /\ upd_hist.cleared = 0
        /\ upd_hist.uploads = 0
        /\ upd_hist.writes = 0

\* C20 as amended: a second update with the same fresh pages deletes every
\* stored file and tracking row and uploads and tracks every page again;
\* the tracked hashes end as they were.
C20_SecondRunRedoesAll ==
    SecondRunSamePages =>
        /\ upd_hist.deletes = Len(fresh)
        /\ upd_hist.cleared = Len(fresh)
        /\ upd_hist.uploads = Len(fresh)
        /\ upd_hist.writes = Len(fresh)
        /\ Hashes(tracking) = upd_hist.stored_before

C20_Witness ==
    /\ SecondRunSamePages
    /\ Len(fresh) = 2
    /\ upd_hist.deletes = 2

\* the URLs of the fresh pages
FreshUrls == { fresh[i].url : i \in 1..Len(fresh) }

\* C21 as stated: after an update whose fresh crawl does not contain a URL,
\* a record stored for that URL before the update is still stored.
C21_AbsentPageKept ==
    upc = "returned" =>
        \A u \in DOMAIN upd_hist.stored_before :
            u \notin FreshUrls =>
                /\ u \in TrackedUrls(tracking)
                /\ Hashes(tracking)[u] = upd_hist.stored_before[u]

\* C21 as amended: every update empties the tracking table before it
\* uploads, so during the upload and after the update only pages of the
\* fresh crawl are stored; a record of a URL the crawl does not contain is
\* gone.
C21_AbsentPageRemoved ==
    upc \in {"upload", "poll", "returned"} => TrackedUrls(tracking) \subseteq FreshUrls

C21_Witness ==
    /\ upc = "returned"
    /\ "A" \in DOMAIN upd_hist.stored_before
    /\ "A" \notin FreshUrls
    /\ "A" \notin TrackedUrls(tracking)

\* C22: after an update has returned, every file of the vector store and of
\* OpenAI Files belongs to exactly one tracked page record.
C22_NoOrphanedFiles ==
    upc = "returned" =>
        \A f \in vs_files \cup oa_files :
            Cardinality({ r \in tracking : r.file_id = f }) = 1

\* C23: when the upload of a page fails during an update, the record stored
\* for that page before the update is still stored with its hash.
C23_FailedUploadKeepsOld ==
    upc \in {"returned", "raised"} =>
        \A u \in upd_hist.upload_failed :
            u \in DOMAIN upd_hist.stored_before =>
                /\ u \in TrackedUrls(tracking)
                /\ Hashes(tracking)[u] = upd_hist.stored_before[u]

\* C24: an update in which the upload of a page raised, or whose file batch
\* ended in a status other than completed, ends as an error for the caller of
\* update_knowledge_base.
C24_StoreFailureSurfaced ==
    (/\ upc \in {"returned", "raised"}
     /\ \/ upd_hist.upload_failed # {}
        \/ batch_status \notin {"none", "completed"}) =>
        KbResult = "error"

\* C27: the wait for the file batch ends: an update that waits on its batch
\* leaves the wait.
C27_BatchWaitEnds ==
    (upc = "poll") ~> (upc # "poll")

\* C25: at most one crawl/update run is in progress at any time.
C25_OneRunAtATime ==
    Cardinality({ t \in Threads : job[t].pc # "idle" }) <= 1

\* C28: a crawl result never holds two records with the same URL, and the
\* tracking table never holds two rows for the same URL.
C28_OneRecordPerUrl ==
    /\ \A i, j \in DOMAIN content_list :
           content_list[i].url = content_list[j].url => i = j
    /\ \A r1, r2 \in tracking : r1.url = r2.url => r1 = r2

C28_Witness ==
    /\ \E r \in tracking : r.url = "A" /\ r.file_id > 1
    /\ \A t \in Threads : job[t].pc = "upload" /\ job[t].idx = 2
                            /\ job[t].content[1].url = "A"

\* the places a message is stored at: thread and position
Places == { <<t, k>> \in (DOMAIN oa_threads) \X (1..MaxRequests) : k <= Len(oa_threads[t]) }

MsgAt(p) == oa_threads[p[1]][p[2]]

\* messages of one external id sent between the same two clears are in one
\* thread
OneThreadPerConversation ==
    \A p, q \in Places :
        (/\ MsgAt(p).external_id = MsgAt(q).external_id
         /\ MsgAt(p).epoch = MsgAt(q).epoch) => p[1] = q[1]

\* the messages of a thread are in the order the requests were received
ReceiptOrder ==
    \A p, q \in Places :
        (p[1] = q[1] /\ p[2] < q[2]) => MsgAt(p).seq < MsgAt(q).seq

\* C26: for one external id all messages are appended to one thread, in the
\* order they were received, also when two chat requests are served at the
\* same time (first requests, before the mapping exists, included).
C26_OneThreadInReceiptOrder == OneThreadPerConversation /\ ReceiptOrder

Apologies == {RunFailedReply(0).text, ExceptionReply(0).text}

ReturnsSafely(r) ==
    /\ req[r].pc # "raised"
    /\ req[r].wait_time <= max_wait_time
    /\ (req[r].pc = "done" /\ req[r].status # "completed") =>
           (~req[r].result.success /\ req[r].result.text \in Apologies)

\* C29: get_response never raises and always returns; it polls the run at
\* most 60 times, and whenever the run did not reach "completed" it returns
\* success = False with one of the apologies.
C29_ReturnsWithinSixtyPolls ==
    /\ [](\A r \in Slots : ReturnsSafely(r))
    /\ \A r \in Slots : (req[r].pc = "lookup") ~> (req[r].pc = "done")

\* a request whose run was still in progress after 60 polls got the apology
C29_Witness ==
    \E r \in Slots :
        /\ req[r].pc = "done"
        /\ req[r].wait_time = max_wait_time
        /\ req[r].status = "in_progress"
        /\ req[r].result = RunFailedReply(req[r].thread_id)

\* messages of one external id sent before and after a clear are in
\* different threads
NewThreadAfterClear ==
    \A p, q \in Places :
        (/\ MsgAt(p).external_id = MsgAt(q).external_id
         /\ MsgAt(p).epoch # MsgAt(q).epoch) => p[1] # q[1]

\* a request that has sent its message, and a request that is answered,
\* uses the thread stored for its id
UsesStoredThread ==
    \A r \in Slots :
        (req[r].pc \in {"run", "poll"} \/ req[r].result.success) =>
            get_thread_id(conversation_threads, req[r].external_id) = req[r].thread_id

\* the thread stored for an id changes only from none to a new thread, or by
\* a clear of that id
OthersUnaffected ==
    \A i \in ExternalIds :
        \/ get_thread_id(conversation_threads', i) = get_thread_id(conversation_threads, i)
        \/ get_thread_id(conversation_threads, i) = 0
        \/ epoch'[i] # epoch[i] /\ get_thread_id(conversation_threads', i) = 0

\* C30: with requests served one at a time, the requests of one external id
\* use the same thread until clear_thread is called for it; the first
\* request after the clear creates a new thread and stores it; the threads
\* of other ids are not affected.
C30_SameThreadUntilClear ==
    /\ [](OneThreadPerConversation /\ NewThreadAfterClear /\ UsesStoredThread)
    /\ [][OthersUnaffected]_vars

\* two messages of an id in one thread, and after a clear a message of the
\* same id in a new thread, which is the one stored
C30_Witness ==
    \E p, q \in Places :
        /\ p[1] # q[1]
        /\ Len(oa_threads[p[1]]) = 2
        /\ MsgAt(p).external_id = MsgAt(q).external_id
        /\ MsgAt(p).epoch = 0 /\ MsgAt(q).epoch = 1
        /\ oa_threads[p[1]][1].external_id = oa_threads[p[1]][2].external_id
        /\ get_thread_id(conversation_threads, MsgAt(q).external_id) = q[1]

\* a call of update_knowledge_base is entered with a crawl that returned no
\* pages
EntersWithNothing == upc = "idle" /\ upc' # "idle" /\ fresh' = <<>>

\* C31: when the crawl of an update returns no pages, update_knowledge_base
\* returns an error and leaves the knowledge store, the tracking table and
\* last_update as they were: nothing is cleaned and nothing is uploaded.
C31_EmptyCrawlChangesNothing ==
    /\ [][EntersWithNothing => (upc' = "empty" /\ UNCHANGED <<storeVars, last_update>>)]_vars
    /\ [][upc = "empty" => (upc' = "idle" /\ UNCHANGED <<storeVars, last_update>>)]_vars
    /\ [](upc = "empty" => KbResult = "error")

\* an update has filled the store, and a later crawl returned no pages
C31_Witness ==
    /\ upc = "empty"
    /\ last_update > 0
    /\ tracking # NoRows
    /\ vs_files # {}

TrackedFileIds(t) == { r.file_id : r \in t }

\* C32: after an update in which every delete and every upload succeeds and
\* the batch completes, the tracking table holds exactly one row per fresh
\* page, with its URL and content hash, and the tracked file ids are exactly
\* the files of the knowledge store.
C32_TrackingMatchesStore ==
    ReturnedClean =>
        /\ Cardinality(tracking) = Len(fresh)
        /\ Hashes(tracking) = HashesOf(fresh)
        /\ TrackedFileIds(tracking) = vs_files

\* a second update of two pages that had files to delete
C32_Witness ==
    /\ ReturnedClean
    /\ Len(fresh) = 2
    /\ upd_hist.deletes > 0
    /\ Cardinality(vs_files) = 2

\* the most URLs a run over max_depth levels can visit: the seed and 50 for
\* each further level
VisitBound(md) == 1 + FanOutCap * (md - 1)

\* the URLs the run has visited so far
VisitedByRun == visited_urls \ visited_at_start

\* C33: a run started with an empty visited set visits at most
\* 1 + 50 * (max_depth - 1) URLs when max_depth >= 1; the visited set only
\* grows during the run; a page that yields no record does not consume the
\* max_pages budget: a page is fetched whenever fewer than max_pages records
\* are collected, however many pages were fetched, and only a returned record
\* adds to the count.
C33_BoundedWork ==
    /\ []((pc # "idle" /\ max_depth >= 1) =>
             /\ Cardinality(VisitedByRun) <= VisitBound(max_depth)
             /\ visited_at_start = {} =>
                   Cardinality(visited_urls) <= VisitBound(max_depth))
    /\ [](pc = "scrape" => Len(content_list) < max_pages)
    /\ [][pc # "idle" =>
             /\ visited_urls \subseteq visited_urls'
             /\ content_list' # content_list =>
                   /\ pc = "scrape"
                   /\ content_list' = Append(content_list, WebContent(normalized_url))]_vars

\* a run of two levels with a budget of two pages that started with nothing
\* visited has visited the seed and 50 pages, of which only the seed yielded
\* a record
C33_Witness ==
    /\ pc = "done"
    /\ visited_at_start = {}
    /\ max_depth = 2
    /\ max_pages = 2
    /\ Len(content_list) = 1
    /\ Cardinality(visited_urls) = VisitBound(2)
    /\ BagCardinality(scrape_calls) = VisitBound(2)

\* C34: two chat requests that carry no externalId are never attached to the
\* same thread: each gets a session id no other request uses, also when they
\* arrive within the same second.
C34_AnonymousRequestsApart ==
    world = "anonymous" =>
        /\ \A p, q \in Places :
              MsgAt(p).seq # MsgAt(q).seq =>
                  (p[1] # q[1] /\ MsgAt(p).external_id # MsgAt(q).external_id)
        /\ \A r, q \in Slots :
              (r # q /\ req[r].pc # "idle" /\ req[q].pc # "idle") =>
                  req[r].external_id # req[q].external_id

====
